---- MODULE Spec2Model ----
(***************************************************************************)
(* AmbedkarGPT: the RAG service (backend/rag_service.py), the command-line *)
(* tool (backend/ambedkar_qa_cli.py) and the files they share: speech.txt  *)
(* and the chroma_db directory.                                            *)
(*                                                                         *)
(* The service is one process-wide RAGService object used by several       *)
(* callers; initialize() and ask_question() hold no lock, so a caller may  *)
(* be pre-empted between any two of their statements that touch the object *)
(* or the files.  Every such statement group is one action below.  The     *)
(* command-line tool is another process over the same two files.  The web  *)
(* server (backend/server.py) calls the service from its request handlers, *)
(* which are coroutines without an await around the service calls, so one  *)
(* server process runs them one request at a time.                         *)
(*                                                                         *)
(* Library code is modelled by its contract: the text splitter yields the  *)
(* document's chunks in order, Chroma keeps the chunks it was given in the *)
(* order they were added, a similarity search ranks them by a fixed        *)
(* function of the question, and the embedding model and the language      *)
(* model may fail at each use.                                             *)
(***************************************************************************)
EXTENDS Integers, Sequences, FiniteSets, TLC

\* Bounds of the model.
NumCallers == 2
MaxChunks == 2
MaxCliRuns == 1
NumCliCallers == 1
MaxRequests == 2

\* search_kwargs={"k": 3}
K == 3

Callers == 1..NumCallers
CliCallers == 1..NumCliCallers
Questions == {"q"}

VARIABLES
    speechExists,   \* SPEECH_FILE.exists()
    document,       \* the chunks the splitter makes of speech.txt
    dirExists,      \* CHROMA_DB_DIR.exists()
    index,          \* the chunks held by the persisted Chroma collection
    svc,            \* the attributes of the RAGService singleton
    pc,             \* the statement each caller of the service is at
    loc,            \* the local variables of each caller's current call
    result,         \* what each caller's last call returned or raised
    hadFailure,     \* history: an initialize() call has raised
    cli,            \* the command-line process and its AmbedkarQA object
    http            \* the web server's /ambedkar/ask handler and its responses

vars == <<speechExists, document, dirExists, index, svc, pc, loc, result,
          hadFailure, cli, http>>

files == <<speechExists, document, dirExists, index>>

----------------------------------------------------------------------------
(* Text.  A string is a sequence of character codes. *)

Backslash == 92
LetterN == 110

\* page_content of chunk c: the single letter "A", "B", ...
PageContent(c) == <<64 + c>>

\* sep.join(parts)
RECURSIVE Join(_, _)
Join(sep, parts) ==
    IF parts = <<>> THEN <<>>
    ELSE IF Len(parts) = 1 THEN Head(parts)
    ELSE Head(parts) \o sep \o Join(sep, Tail(parts))

\* The separator literal of format_docs as Python reads it: in "\\n\\n" each
\* \\ is one backslash, so the literal is backslash, n, backslash, n.
FormatSeparator == <<Backslash, LetterN, Backslash, LetterN>>

\* format_docs(docs)
format_docs(docs) ==
    Join(FormatSeparator, [i \in 1..Len(docs) |-> PageContent(docs[i])])

\* The template of ChatPromptTemplate.from_template, with its two placeholders.
RenderPrompt(context, question) ==
    [context |-> context, question |-> question]

----------------------------------------------------------------------------
(* The document and the index. *)

\* text_splitter.split_documents(documents): chunks 1..n in document order.
Chunks(n) == [i \in 1..n |-> i]

RECURSIVE Reverse(_)
Reverse(s) == IF s = <<>> THEN <<>> ELSE Reverse(Tail(s)) \o <<Head(s)>>

\* The chunk ids from most to least similar to question q: the embedding
\* model puts the later chunks of the speech nearer to "q".
SimilarityOrder(q) ==
    IF q = "q" THEN Reverse(Chunks(MaxChunks)) ELSE Chunks(MaxChunks)

\* The stored chunks from most to least similar to q; equal chunks keep the
\* order in which they were added.
RECURSIVE RankedFrom(_, _)
RankedFrom(idx, order) ==
    IF order = <<>> THEN <<>>
    ELSE SelectSeq(idx, LAMBDA c : c = Head(order))
             \o RankedFrom(idx, Tail(order))

Min(a, b) == IF a < b THEN a ELSE b

\* A faulty variant: the retriever returns every stored chunk, ignoring k.
Retrieve_IgnoresK(idx, q) == RankedFrom(idx, SimilarityOrder(q))

\* retriever.invoke(question) with search_kwargs k = 3
Retrieve(idx, q) ==
    LET ranked == RankedFrom(idx, SimilarityOrder(q))
    IN  SubSeq(ranked, 1, Min(K, Len(ranked)))

----------------------------------------------------------------------------
(* The service object. *)

\* RAGService.__new__ and __init__ on first construction (rag_service = RAGService())
NewService ==
    [initialized |-> FALSE, embeddings |-> "None", vectorstore |-> "None",
     llm |-> "None", retriever |-> "None", prompt |-> "None",
     qa_chain |-> "None"]

NoLoc ==
    [texts |-> <<>>, saw |-> FALSE, question |-> "", source_docs |-> <<>>,
     trace |-> <<>>, written |-> 0, ready |-> FALSE]

NoResult == [op |-> "none", status |-> "none", data |-> <<>>]

\* A call returns: the caller holds the value and is free for its next call.
Return(t, op, status, data) ==
    /\ pc' = [pc EXCEPT ![t] = "idle"]
    /\ loc' = [loc EXCEPT ![t] = NoLoc]
    /\ result' = [result EXCEPT ![t] =
                     [op |-> op, status |-> status, data |-> data]]

\* except Exception as e: logger.error(...); raise  -- in initialize()
RaiseInInitialize(t, cause) ==
    /\ Return(t, "initialize", "error", [cause |-> cause])
    /\ hadFailure' = TRUE

\* A faulty variant: a failed question marks the service as not initialized.
RaiseInAsk_ResetsService(t, cause) ==
    /\ Return(t, "ask_question", "error",
              [cause |-> cause, ready |-> loc[t].ready,
               retrieved |-> loc[t].source_docs # <<>>])
    /\ svc' = [svc EXCEPT !.initialized = FALSE]
    /\ UNCHANGED <<files, hadFailure, cli, http>>

\* except Exception as e: logger.error(...); raise  -- in ask_question()
RaiseInAsk(t, cause) ==
    /\ Return(t, "ask_question", "error",
              [cause |-> cause, ready |-> loc[t].ready,
               retrieved |-> loc[t].source_docs # <<>>])
    /\ UNCHANGED <<files, svc, hadFailure, cli, http>>

Goto(t, label, newloc) ==
    /\ pc' = [pc EXCEPT ![t] = label]
    /\ loc' = [loc EXCEPT ![t] = newloc]
    /\ result' = [result EXCEPT ![t] = NoResult]

Step(t, name) == [loc[t] EXCEPT !.trace = @ \o name]

----------------------------------------------------------------------------
(* RAGService.initialize() *)

\* A faulty variant: initialize() refuses once an earlier call has failed.
InitializeEnter_RefusesAfterFailure(t) ==
    /\ pc[t] = "idle"
    /\ IF svc.initialized \/ hadFailure
       THEN /\ Return(t, "initialize",
                      IF svc.initialized THEN "already_initialized"
                      ELSE "refused", <<>>)
            /\ UNCHANGED <<files, svc, hadFailure, cli, http>>
       ELSE /\ Goto(t, "init_load", NoLoc)
            /\ UNCHANGED <<files, svc, hadFailure, cli, http>>

\* A faulty variant: initialize() without its already-initialized check.
InitializeEnter_NoCheck(t) ==
    /\ pc[t] = "idle"
    /\ Goto(t, "init_load", NoLoc)
    /\ UNCHANGED <<files, svc, hadFailure, cli, http>>

\* if self.initialized: return {"status": "already_initialized", ...}
InitializeEnter(t) ==
    /\ pc[t] = "idle"
    /\ IF svc.initialized
       THEN /\ Return(t, "initialize", "already_initialized", <<>>)
            /\ UNCHANGED <<files, svc, hadFailure, cli, http>>
       ELSE /\ Goto(t, "init_load", NoLoc)
            /\ UNCHANGED <<files, svc, hadFailure, cli, http>>

\* A faulty variant: a missing speech file is read as an empty document.
LoadDocument_NoExistsCheck(t) ==
    /\ pc[t] = "init_load"
    /\ Goto(t, "init_embeddings",
            [Step(t, <<"load", "segment">>) EXCEPT !.texts = document])
    /\ UNCHANGED <<files, svc, hadFailure, cli, http>>

\* if not SPEECH_FILE.exists(): raise FileNotFoundError
\* documents = loader.load(); texts = text_splitter.split_documents(documents)
LoadDocument(t) ==
    /\ pc[t] = "init_load"
    /\ IF ~speechExists
       THEN /\ RaiseInInitialize(t, "FileNotFoundError")
            /\ UNCHANGED <<files, svc, cli, http>>
       ELSE /\ Goto(t, "init_embeddings",
                    [Step(t, <<"load", "segment">>) EXCEPT !.texts = document])
            /\ UNCHANGED <<files, svc, hadFailure, cli, http>>

\* self.embeddings = HuggingFaceEmbeddings(...): the model loads, or the
\* constructor raises and nothing is assigned.
LoadEmbeddings(t) ==
    /\ pc[t] = "init_embeddings"
    /\ \/ /\ svc' = [svc EXCEPT !.embeddings = "set"]
          /\ Goto(t, "init_check", Step(t, <<"load_embedder">>))
          /\ UNCHANGED <<files, hadFailure, cli, http>>
       \/ /\ RaiseInInitialize(t, "CapabilityError")
          /\ UNCHANGED <<files, svc, cli, http>>

\* if CHROMA_DB_DIR.exists():
CheckIndex(t) ==
    /\ pc[t] = "init_check"
    /\ Goto(t, IF dirExists THEN "init_open" ELSE "init_create",
            [Step(t, <<"check_index">>) EXCEPT !.saw = dirExists])
    /\ UNCHANGED <<files, svc, hadFailure, cli, http>>

\* A faulty variant: the existing directory is handed to Chroma.from_documents, as
\* the command-line tool does.
OpenIndex_AddsDocuments(t) ==
    /\ pc[t] = "init_open"
    /\ svc' = [svc EXCEPT !.vectorstore = "set"]
    /\ dirExists' = TRUE
    /\ index' = index \o loc[t].texts
    /\ Goto(t, "init_assemble", Step(t, <<"reuse">>))
    /\ UNCHANGED <<speechExists, document, hadFailure, cli, http>>

\* self.vectorstore = Chroma(persist_directory=..., embedding_function=...)
OpenIndex(t) ==
    /\ pc[t] = "init_open"
    /\ svc' = [svc EXCEPT !.vectorstore = "set"]
    /\ dirExists' = TRUE
    /\ Goto(t, "init_assemble", Step(t, <<"reuse">>))
    /\ UNCHANGED <<speechExists, document, index, hadFailure, cli, http>>

\* Chroma.from_documents, first half: the collection object is made, which
\* creates the persist directory; an existing collection is kept as it is.
BuildCreate(t) ==
    /\ pc[t] = "init_create"
    /\ dirExists' = TRUE
    /\ Goto(t, "init_add", loc[t])
    /\ UNCHANGED <<speechExists, document, index, svc, hadFailure, cli, http>>

\* Chroma.from_documents, second half: the texts are embedded and added to
\* the collection under fresh ids, and the store is assigned.  Embedding may
\* raise; with no texts the library either adds nothing or rejects the
\* empty batch, depending on its version.
BuildAdd(t) ==
    /\ pc[t] = "init_add"
    /\ \/ /\ index' = index \o loc[t].texts
          /\ svc' = [svc EXCEPT !.vectorstore = "set"]
          /\ Goto(t, "init_assemble",
                  [Step(t, <<"embed_build_persist">>) EXCEPT
                      !.written = @ + Len(loc[t].texts)])
          /\ UNCHANGED <<speechExists, document, dirExists, hadFailure, cli, http>>
       \/ /\ RaiseInInitialize(t, IF loc[t].texts = <<>>
                                  THEN "ValueError" ELSE "CapabilityError")
          /\ UNCHANGED <<files, svc, cli, http>>

\* self.llm = OllamaLLM(...)
\* self.retriever = self.vectorstore.as_retriever(search_kwargs={"k": 3})
\* self.prompt = ...; self.qa_chain = ...
Assemble(t) ==
    /\ pc[t] = "init_assemble"
    /\ IF svc.vectorstore = "None"
       THEN /\ svc' = [svc EXCEPT !.llm = "set"]
            /\ RaiseInInitialize(t, "AttributeError")
            /\ UNCHANGED <<files, cli, http>>
       ELSE /\ svc' = [svc EXCEPT !.llm = "set", !.retriever = "set",
                                  !.prompt = "set", !.qa_chain = "set"]
            /\ Goto(t, "init_finish", Step(t, <<"llm", "assemble">>))
            /\ UNCHANGED <<files, hadFailure, cli, http>>

\* self.initialized = True
\* return {"status": "success", ..., "chunks_count": len(texts)}
Finish(t) ==
    /\ pc[t] = "init_finish"
    /\ svc' = [svc EXCEPT !.initialized = TRUE]
    /\ Return(t, "initialize", "success",
              [chunks_count |-> Len(loc[t].texts), saw |-> loc[t].saw,
               trace |-> loc[t].trace, written |-> loc[t].written])
    /\ UNCHANGED <<files, hadFailure, cli, http>>

----------------------------------------------------------------------------
(* RAGService.ask_question(), get_status() and a further RAGService() *)

\* "sources": [{"content": doc.page_content, "metadata": doc.metadata} ...]
Sources(docs) ==
    [i \in 1..Len(docs) |->
        [content |-> PageContent(docs[i]), metadata |-> "speech.txt"]]

\* A faulty variant: ask_question() without its not-initialized check.
AskEnter_NoCheck(t, q) ==
    /\ pc[t] = "idle"
    /\ Goto(t, "ask_retrieve",
            [NoLoc EXCEPT !.question = q, !.ready = svc.initialized])
    /\ UNCHANGED <<files, svc, hadFailure, cli, http>>

\* if not self.initialized: raise RuntimeError("RAG service not initialized...")
AskEnter(t, q) ==
    /\ pc[t] = "idle"
    /\ IF ~svc.initialized
       THEN /\ Return(t, "ask_question", "error",
                      [cause |-> "RuntimeError", ready |-> svc.initialized,
                       retrieved |-> FALSE])
            /\ UNCHANGED <<files, svc, hadFailure, cli, http>>
       ELSE /\ Goto(t, "ask_retrieve",
                    [NoLoc EXCEPT !.question = q, !.ready = svc.initialized])
            /\ UNCHANGED <<files, svc, hadFailure, cli, http>>

\* source_docs = self.retriever.invoke(question)
AskRetrieve(t) ==
    /\ pc[t] = "ask_retrieve"
    /\ IF svc.retriever = "None"
       THEN RaiseInAsk(t, "AttributeError")
       ELSE /\ Goto(t, "ask_chain",
                    [loc[t] EXCEPT
                        !.source_docs = Retrieve(index, loc[t].question)])
            /\ UNCHANGED <<files, svc, hadFailure, cli, http>>

\* answer = self.qa_chain.invoke(question): the chain runs the retriever,
\* format_docs, the prompt and the language model, which may raise.
\* return {"question", "answer", "sources", "sources_count"}
AskChain(t) ==
    /\ pc[t] = "ask_chain"
    /\ IF svc.qa_chain = "None"
       THEN RaiseInAsk(t, "AttributeError")
       ELSE \/ LET grounding == Retrieve(index, loc[t].question)
                   context == format_docs(grounding)
                   sources == Sources(loc[t].source_docs)
               IN  /\ Return(t, "ask_question", "ok",
                          [question |-> loc[t].question,
                           answer |-> RenderPrompt(context, loc[t].question),
                           sources |-> sources,
                           sources_count |-> Len(sources),
                           grounding |-> grounding,
                           ready |-> loc[t].ready])
                   /\ UNCHANGED <<files, svc, hadFailure, cli, http>>
            \/ RaiseInAsk(t, "CapabilityError")

\* History: where the service stands, from the calls made so far.
Phase ==
    IF svc.initialized THEN "ready"
    ELSE IF \E t \in Callers : pc[t] \notin {"idle"} THEN "initializing"
    ELSE IF hadFailure THEN "failed" ELSE "uninitialized"

\* A faulty variant: the status check makes sure the index directory exists.
get_status_MakesDirectory(t) ==
    /\ pc[t] = "idle"
    /\ dirExists' = TRUE
    /\ Return(t, "get_status", "ok",
              [initialized |-> svc.initialized,
               speech_file_exists |-> speechExists,
               vector_db_exists |-> TRUE,
               phase |-> Phase])
    /\ UNCHANGED <<speechExists, document, index, svc, hadFailure, cli, http>>

\* return {"initialized", "speech_file_exists", "vector_db_exists"}
get_status(t) ==
    /\ pc[t] = "idle"
    /\ Return(t, "get_status", "ok",
              [initialized |-> svc.initialized,
               speech_file_exists |-> speechExists,
               vector_db_exists |-> dirExists,
               phase |-> Phase])
    /\ UNCHANGED <<files, svc, hadFailure, cli, http>>

\* A faulty variant: __init__ without its `if not self.initialized` guard.
Construct_AlwaysClears(t) ==
    /\ pc[t] = "idle"
    /\ svc' = [svc EXCEPT !.vectorstore = "None", !.qa_chain = "None",
                          !.embeddings = "None", !.initialized = FALSE]
    /\ Return(t, "construct", "ok", <<>>)
    /\ UNCHANGED <<files, hadFailure, cli, http>>

\* RAGService(): __new__ returns the existing instance, and __init__ clears
\* three attributes unless the instance is initialized.
Construct(t) ==
    /\ pc[t] = "idle"
    /\ svc' = IF ~svc.initialized
              THEN [svc EXCEPT !.vectorstore = "None", !.qa_chain = "None",
                               !.embeddings = "None", !.initialized = FALSE]
              ELSE svc
    /\ Return(t, "construct", "ok", <<>>)
    /\ UNCHANGED <<files, hadFailure, cli, http>>

----------------------------------------------------------------------------
(* The command-line tool: main(), AmbedkarQA.setup() and AmbedkarQA.ask() *)

\* AmbedkarQA.__init__
NewCli(runs) ==
    [pc |-> "new", texts |-> <<>>, vectorstore |-> "None",
     retriever |-> "None", qa_chain |-> "None", runs |-> runs,
     last |-> "none"]

service == <<svc, pc, loc, result, hadFailure>>

\* main(): qa_system = AmbedkarQA()
CliStart ==
    /\ cli.pc = "off"
    /\ cli.runs < MaxCliRuns
    /\ cli' = NewCli(cli.runs + 1)
    /\ UNCHANGED <<files, service, http>>

\* except Exception in main(): print, sys.exit(1)
CliFatal == [cli EXCEPT !.pc = "off", !.last = "fatal"]

\* setup(), steps 1 and 2
CliLoadDocument ==
    /\ cli.pc = "new"
    /\ cli' = IF ~speechExists THEN CliFatal
              ELSE [cli EXCEPT !.pc = "setup_embeddings", !.texts = document]
    /\ UNCHANGED <<files, service, http>>

\* setup(), step 3
CliLoadEmbeddings ==
    /\ cli.pc = "setup_embeddings"
    /\ \/ cli' = [cli EXCEPT !.pc = "setup_create"]
       \/ cli' = CliFatal
    /\ UNCHANGED <<files, service, http>>

\* setup(), step 4: Chroma.from_documents, whatever the directory holds
CliBuildCreate ==
    /\ cli.pc = "setup_create"
    /\ dirExists' = TRUE
    /\ cli' = [cli EXCEPT !.pc = "setup_add"]
    /\ UNCHANGED <<speechExists, document, index, service, http>>

CliBuildAdd ==
    /\ cli.pc = "setup_add"
    /\ \/ /\ index' = index \o cli.texts
          /\ cli' = [cli EXCEPT !.pc = "setup_assemble", !.vectorstore = "set"]
       \/ /\ cli' = CliFatal
          /\ UNCHANGED index
    /\ UNCHANGED <<speechExists, document, dirExists, service, http>>

\* setup(), steps 5 and 6
CliAssemble ==
    /\ cli.pc = "setup_assemble"
    /\ cli' = [cli EXCEPT !.pc = "interactive", !.retriever = "set",
                          !.qa_chain = "set"]
    /\ UNCHANGED <<files, service, http>>

\* ask(): if not self.qa_chain: raise RuntimeError; else retrieve and answer
CliAsk ==
    /\ cli.pc \in {"new", "interactive"}
    /\ cli' = [cli EXCEPT !.last = IF cli.qa_chain = "None"
                                   THEN "not_initialized" ELSE "answered"]
    /\ UNCHANGED <<files, service, http>>

\* interactive_mode(): 'exit'
CliExit ==
    /\ cli.pc = "interactive"
    /\ cli' = [cli EXCEPT !.pc = "off"]
    /\ UNCHANGED <<files, service, http>>

----------------------------------------------------------------------------
(* The web server: POST /api/ambedkar/ask *)

\* The caller of the service that is the server's event loop.
ServerCaller == 1

\* The handler is idle; log holds one entry per request answered so far.
NewHttp ==
    [stage |-> "idle", question |-> "", triggered |-> FALSE,
     initOk |-> FALSE, attempts |-> 0, log |-> <<>>]

\* The response to the request in hand goes out and the handler is free.
Respond(code, answered) ==
    [http EXCEPT !.stage = "idle",
                 !.log = @ \o <<[code |-> code, answered |-> answered,
                                 triggered |-> http.triggered,
                                 initOk |-> http.initOk]>>]

\* raise HTTPException: 503 for a RuntimeError, 500 for any other exception;
\* a failure of a model may be of either class.
ErrorCodes(cause) ==
    IF cause = "RuntimeError" THEN {503}
    ELSE IF cause = "CapabilityError" THEN {500, 503}
    ELSE {500}

\* A faulty variant: the handler calls initialize() for every request.
ReceiveAsk_AlwaysInitializes(q) ==
    /\ http.stage = "idle"
    /\ Len(http.log) < MaxRequests
    /\ pc[ServerCaller] = "idle"
    /\ http' = [http EXCEPT !.stage = "init", !.question = q,
                            !.triggered = TRUE, !.initOk = FALSE,
                            !.attempts = @ + 1]
    /\ result' = [result EXCEPT ![ServerCaller] = NoResult]
    /\ UNCHANGED <<files, svc, pc, loc, hadFailure, cli>>

\* async def ask_question(request): if not rag_service.initialized: ...
ReceiveAsk(q) ==
    /\ http.stage = "idle"
    /\ Len(http.log) < MaxRequests
    /\ pc[ServerCaller] = "idle"
    /\ http' = [http EXCEPT
                  !.stage = IF svc.initialized THEN "ask" ELSE "init",
                  !.question = q,
                  !.triggered = ~svc.initialized,
                  !.initOk = FALSE,
                  !.attempts = IF svc.initialized THEN @ ELSE @ + 1]
    /\ result' = [result EXCEPT ![ServerCaller] = NoResult]
    /\ UNCHANGED <<files, svc, pc, loc, hadFailure, cli>>

\* rag_service.initialize()
ServerInitialize ==
    /\ http.stage = "init"
    /\ result[ServerCaller] = NoResult
    /\ InitializeEnter(ServerCaller)

\* initialize() has returned or raised: go on to ask_question(), or leave
\* through `except Exception` with an error response.
AfterInitialize ==
    /\ http.stage = "init"
    /\ pc[ServerCaller] = "idle"
    /\ result[ServerCaller].op = "initialize"
    /\ IF result[ServerCaller].status = "error"
       THEN \E code \in ErrorCodes(result[ServerCaller].data.cause) :
                http' = Respond(code, FALSE)
       ELSE http' = [http EXCEPT !.stage = "ask", !.initOk = TRUE]
    /\ UNCHANGED <<files, service, cli>>

\* result = rag_service.ask_question(request.question)
ServerAsk ==
    /\ http.stage = "ask"
    /\ result[ServerCaller].op # "ask_question"
    /\ AskEnter(ServerCaller, http.question)

\* return result, or raise HTTPException from one of the except clauses
AfterAsk ==
    /\ http.stage = "ask"
    /\ pc[ServerCaller] = "idle"
    /\ result[ServerCaller].op = "ask_question"
    /\ IF result[ServerCaller].status = "ok"
       THEN http' = Respond(200, TRUE)
       ELSE \E code \in ErrorCodes(result[ServerCaller].data.cause) :
                http' = Respond(code, FALSE)
    /\ UNCHANGED <<files, service, cli>>

----------------------------------------------------------------------------
(* The system *)

Init ==
    /\ speechExists \in BOOLEAN
    /\ document \in {Chunks(n) : n \in 0..MaxChunks}
    /\ ~speechExists => document = <<>>
    /\ dirExists = FALSE
    /\ index = <<>>
    /\ svc = NewService
    /\ pc = [t \in Callers |-> "idle"]
    /\ loc = [t \in Callers |-> NoLoc]
    /\ result = [t \in Callers |-> NoResult]
    /\ hadFailure = FALSE
    /\ cli = [NewCli(0) EXCEPT !.pc = "off"]
    /\ http = NewHttp

\* The callers of the service, by themselves.
Next ==
    \/ \E t \in Callers : InitializeEnter(t)
    \/ \E t \in Callers : LoadDocument(t)
    \/ \E t \in Callers : LoadEmbeddings(t)
    \/ \E t \in Callers : CheckIndex(t)
    \/ \E t \in Callers : OpenIndex(t)
    \/ \E t \in Callers : BuildCreate(t)
    \/ \E t \in Callers : BuildAdd(t)
    \/ \E t \in Callers : Assemble(t)
    \/ \E t \in Callers : Finish(t)
    \/ \E t \in Callers : \E q \in Questions : AskEnter(t, q)
    \/ \E t \in Callers : AskRetrieve(t)
    \/ \E t \in Callers : AskChain(t)
    \/ \E t \in Callers : get_status(t)
    \/ \E t \in Callers : Construct(t)

Spec == Init /\ [][Next]_vars

\* The command-line tool run beside a service with CliCallers callers.
NextCli ==
    \/ \E t \in CliCallers : InitializeEnter(t)
    \/ \E t \in CliCallers : LoadDocument(t)
    \/ \E t \in CliCallers : LoadEmbeddings(t)
    \/ \E t \in CliCallers : CheckIndex(t)
    \/ \E t \in CliCallers : OpenIndex(t)
    \/ \E t \in CliCallers : BuildCreate(t)
    \/ \E t \in CliCallers : BuildAdd(t)
    \/ \E t \in CliCallers : Assemble(t)
    \/ \E t \in CliCallers : Finish(t)
    \/ \E t \in CliCallers : \E q \in Questions : AskEnter(t, q)
    \/ \E t \in CliCallers : AskRetrieve(t)
    \/ \E t \in CliCallers : AskChain(t)
    \/ \E t \in CliCallers : get_status(t)
    \/ \E t \in CliCallers : Construct(t)
    \/ CliStart
    \/ CliLoadDocument
    \/ CliLoadEmbeddings
    \/ CliBuildCreate
    \/ CliBuildAdd
    \/ CliAssemble
    \/ CliAsk
    \/ CliExit

SpecCli == Init /\ [][NextCli]_vars

\* One server process answering /ambedkar/ask requests.
NextServer ==
    \/ \E q \in Questions : ReceiveAsk(q)
    \/ ServerInitialize
    \/ LoadDocument(ServerCaller)
    \/ LoadEmbeddings(ServerCaller)
    \/ CheckIndex(ServerCaller)
    \/ OpenIndex(ServerCaller)
    \/ BuildCreate(ServerCaller)
    \/ BuildAdd(ServerCaller)
    \/ Assemble(ServerCaller)
    \/ Finish(ServerCaller)
    \/ AfterInitialize
    \/ ServerAsk
    \/ AskRetrieve(ServerCaller)
    \/ AskChain(ServerCaller)
    \/ AfterAsk

SpecServer == Init /\ [][NextServer]_vars

\* The processes start over files left by earlier runs: the index directory
\* may exist and hold the chunks of the document as it then was, or nothing
\* after a run that failed.
InitRestart ==
    /\ speechExists \in BOOLEAN
    /\ document \in {Chunks(n) : n \in 0..MaxChunks}
    /\ ~speechExists => document = <<>>
    /\ dirExists \in BOOLEAN
    /\ index \in {Chunks(m) : m \in 0..MaxChunks}
    /\ ~dirExists => index = <<>>
    /\ svc = NewService
    /\ pc = [t \in Callers |-> "idle"]
    /\ loc = [t \in Callers |-> NoLoc]
    /\ result = [t \in Callers |-> NoResult]
    /\ hadFailure = FALSE
    /\ cli = [NewCli(0) EXCEPT !.pc = "off"]
    /\ http = NewHttp

SpecRestart == InitRestart /\ [][NextCli]_vars

----------------------------------------------------------------------------
(* Properties *)

InitSuccess(r) == r.op = "initialize" /\ r.status = "success"
InitError(r) == r.op = "initialize" /\ r.status = "error"
AskOk(r) == r.op = "ask_question" /\ r.status = "ok"
AskError(r) == r.op = "ask_question" /\ r.status = "error"

\* Caller t calls initialize() in this step.
CallsInitialize(t) ==
    /\ pc[t] = "idle"
    /\ \/ pc'[t] = "init_load"
       \/ result'[t].op = "initialize" /\ result'[t] # result[t]

\* C1: of the callers of initialize() on an uninitialized service, exactly
\* one performs the full build: never do two callers each hold the
\* "success" result of a build of their own.  Stated for a document that
\* has chunks, where the outcome does not hang on the library version.
C1_ExactlyOneFullBuild ==
    document # <<>> =>
        Cardinality({t \in Callers : InitSuccess(result[t])}) <= 1

\* C2: initialize() called on an initialized service returns
\* "already_initialized" at once and changes neither the service object nor
\* the document, the index directory or the index.
C2_InitializeIdempotent ==
    [][\A t \in Callers :
          (svc.initialized /\ CallsInitialize(t)) =>
              /\ pc'[t] = "idle"
              /\ result'[t].op = "initialize"
              /\ result'[t].status = "already_initialized"
              /\ svc' = svc
              /\ files' = files]_vars

C2_Witness ==
    \E t \in Callers :
        /\ result[t].op = "initialize"
        /\ result[t].status = "already_initialized"
        /\ svc.initialized
        /\ index # <<>>

\* C3: the sources an answer returns are the chunks of the retrieval whose
\* context the language model was given.
C3_SourcesAreGrounding ==
    \A t \in Callers :
        AskOk(result[t]) =>
            result[t].data.sources = Sources(result[t].data.grounding)

\* Caller t calls ask_question() or takes a step of it.
StepsInAsk(t) ==
    \/ /\ pc[t] = "idle"
       /\ \/ pc'[t] = "ask_retrieve"
          \/ result'[t].op = "ask_question" /\ result'[t] # result[t]
    \/ pc[t] \in {"ask_retrieve", "ask_chain"} /\ pc'[t] # pc[t]

\* C4: a question put while the service is not initialized is refused with
\* the not-initialized error: while initialized is false no caller is
\* retrieving or generating, no answer is held, and a call that found the
\* service uninitialized holds the error and retrieved nothing; the
\* command-line tool answers only once its chain is assembled.
C4_NotReadyRefused ==
    /\ \A t \in Callers :
          /\ pc[t] \in {"ask_retrieve", "ask_chain"} => svc.initialized
          /\ AskOk(result[t]) => svc.initialized /\ result[t].data.ready
          /\ (result[t].op = "ask_question" /\ ~result[t].data.ready) =>
                /\ result[t].status = "error"
                /\ result[t].data.cause = "RuntimeError"
                /\ ~result[t].data.retrieved
    /\ cli.last = "answered" => cli.qa_chain = "set"
    /\ (cli.pc = "new" /\ cli.last # "none") => cli.last = "not_initialized"

C4_Witness ==
    /\ \E t \in Callers :
          /\ AskError(result[t])
          /\ result[t].data.cause = "RuntimeError"
          /\ ~svc.initialized
    /\ cli.last = "not_initialized"

StatusOf(r) ==
    <<r.data.initialized, r.data.speech_file_exists, r.data.vector_db_exists>>

\* C5: an error in initialize() reaches the caller with its cause and leaves
\* the service in a failed state that get_status() tells apart: two status
\* reports taken in different situations (not yet initialized, failed,
\* ready) are never equal.
C5_StatusTellsFailure ==
    /\ \A t \in Callers : InitError(result[t]) => result[t].data.cause # ""
    /\ \A t, u \in Callers :
          (/\ result[t].op = "get_status"
           /\ result[u].op = "get_status"
           /\ {result[t].data.phase, result[u].data.phase}
                  \subseteq {"uninitialized", "failed", "ready"}
           /\ StatusOf(result[t]) = StatusOf(result[u]))
              => result[t].data.phase = result[u].data.phase

Range(f) == {f[i] : i \in DOMAIN f}

\* The index holds every chunk of the document.
IndexComplete == Range(document) \subseteq Range(index)

BuildInProgress ==
    \/ \E t \in Callers : pc[t] = "init_add"
    \/ cli.pc = "setup_add"

\* C6: once an initialize() call has failed and no build is under way, the
\* index directory either does not exist or holds a complete index of the
\* document.
C6_NoPartialIndex ==
    ((\E t \in Callers : InitError(result[t])) /\ ~BuildInProgress)
        => (~dirExists \/ IndexComplete)

\* C7: no step of ask_question(), whether it ends in an answer or in an
\* error, changes the service object, the index or the files, so the
\* service stays initialized for the next question.
C7_AskLeavesServiceUnchanged ==
    [][\A t \in Callers :
          StepsInAsk(t) => (svc' = svc /\ files' = files
                            /\ hadFailure' = hadFailure)]_vars

C7_Witness ==
    /\ svc.initialized
    /\ \E t, u \in Callers :
          /\ AskError(result[t])
          /\ result[t].data.cause = "CapabilityError"
          /\ AskOk(result[u])

\* C8: with an empty document initialize() fails also when the index
\* directory already exists: no call that found the directory succeeds, and
\* the service does not become initialized through such a call.
C8_EmptyDocumentFails ==
    (speechExists /\ document = <<>>) =>
        \A t \in Callers :
            ~(InitSuccess(result[t]) /\ result[t].data.saw)

DoubleLineBreak == <<10, 10>>

\* C9: the context given to the prompt is the retrieved chunk texts in
\* retrieval order with two newline characters between consecutive chunks.
C9_ContextJoinedByBlankLine ==
    \A t \in Callers :
        AskOk(result[t]) =>
            result[t].data.answer.context =
                Join(DoubleLineBreak,
                     [i \in 1..Len(result[t].data.grounding) |->
                         PageContent(result[t].data.grounding[i])])

ReuseTrace ==
    <<"load", "segment", "load_embedder", "check_index", "reuse",
      "llm", "assemble">>

BuildTrace ==
    <<"load", "segment", "load_embedder", "check_index",
      "embed_build_persist", "llm", "assemble">>

\* Caller t takes a step of initialize().
StepsInInitialize(t) ==
    \/ CallsInitialize(t)
    \/ /\ pc[t] \in {"init_load", "init_embeddings", "init_check",
                     "init_open", "init_create", "init_add",
                     "init_assemble", "init_finish"}
       /\ pc'[t] # pc[t]

\* C10: a successful initialize() has loaded, segmented, checked for the
\* index directory, then reused or built the index, then acquired the
\* language model and assembled the chain, in that order; a call that found
\* the directory embeds and writes nothing, and a call that did not writes
\* its chunks once, in the one step that builds.
C10_StepOrder ==
    /\ [](\A t \in Callers :
            InitSuccess(result[t]) =>
                /\ dirExists
                /\ IF result[t].data.saw
                   THEN /\ result[t].data.trace = ReuseTrace
                        /\ result[t].data.written = 0
                   ELSE /\ result[t].data.trace = BuildTrace
                        /\ result[t].data.written
                              = result[t].data.chunks_count)
    /\ [][\A t \in Callers :
            StepsInInitialize(t) =>
                IF pc[t] = "init_add" /\ pc'[t] = "init_assemble"
                THEN ~loc[t].saw /\ index' = index \o loc[t].texts
                ELSE index' = index]_vars

C10_Witness ==
    \E t, u \in Callers :
        /\ InitSuccess(result[t]) /\ result[t].data.saw
        /\ InitSuccess(result[u]) /\ ~result[u].data.saw
        /\ result[u].data.chunks_count = MaxChunks

\* C11: after a failed initialize() a later call is not refused and does
\* not return "already_initialized": it starts the initialization again,
\* and a call that gets through every step leaves the service initialized.
C11_RetryAfterFailure ==
    /\ [][\A t \in Callers :
            (hadFailure /\ ~svc.initialized /\ CallsInitialize(t)) =>
                pc'[t] = "init_load"]_vars
    /\ [](\A t \in Callers : InitSuccess(result[t]) => svc.initialized)

\* One caller alone failed and then, on a later call, succeeded.
C11_Witness ==
    \E t \in Callers :
        /\ hadFailure
        /\ InitSuccess(result[t])
        /\ svc.initialized
        /\ \A u \in Callers \ {t} : pc[u] = "idle" /\ result[u] = NoResult

\* C12: get_status() returns the current initialized flag and whether the
\* document file and the index directory exist, and changes neither the
\* service nor any file or directory, whatever the service is doing.
C12_StatusIsPureRead ==
    [][\A t \in Callers :
          (/\ pc[t] = "idle"
           /\ result'[t].op = "get_status"
           /\ result'[t] # result[t]) =>
              /\ result'[t].data.initialized = svc.initialized
              /\ result'[t].data.speech_file_exists = speechExists
              /\ result'[t].data.vector_db_exists = dirExists
              /\ svc' = svc
              /\ files' = files
              /\ hadFailure' = hadFailure
              /\ \A u \in Callers \ {t} : pc'[u] = pc[u] /\ loc'[u] = loc[u]]_vars

\* A status taken while another caller is in the middle of a build.
C12_Witness ==
    \E t, u \in Callers :
        /\ result[t].op = "get_status"
        /\ result[t].data.phase = "initializing"
        /\ result[t].data.vector_db_exists
        /\ ~result[t].data.initialized
        /\ pc[u] = "init_add"

\* C13: with no speech file, initialize() and the command-line setup() stop
\* at the document-not-found error before any other step: no embedding
\* model is loaded, no index is opened or created, nothing is marked
\* initialized, and an index left by an earlier run is not touched.
C13_MissingDocumentStopsFirst ==
    /\ [](~speechExists =>
            /\ ~svc.initialized
            /\ svc.embeddings = "None"
            /\ svc.vectorstore = "None"
            /\ svc.qa_chain = "None"
            /\ \A t \in Callers :
                  /\ pc[t] \in {"idle", "init_load"}
                  /\ result[t].op = "initialize" =>
                        /\ result[t].status = "error"
                        /\ result[t].data.cause = "FileNotFoundError"
            /\ cli.pc \in {"off", "new"}
            /\ cli.vectorstore = "None"
            /\ cli.qa_chain = "None"
            /\ cli.last \in {"none", "not_initialized", "fatal"})
    /\ [][~speechExists => (dirExists' = dirExists /\ index' = index)]_vars

C13_Witness ==
    /\ ~speechExists
    /\ dirExists
    /\ index # <<>>
    /\ \E t \in Callers :
          InitError(result[t]) /\ result[t].data.cause = "FileNotFoundError"
    /\ cli.last = "fatal"

C15_InitializedImpliesAssembled ==
    svc.initialized =>
        /\ svc.embeddings # "None"
        /\ svc.vectorstore # "None"
        /\ svc.llm # "None"
        /\ svc.retriever # "None"
        /\ svc.prompt # "None"
        /\ svc.qa_chain # "None"

NoRunInProgress ==
    /\ \A t \in Callers : pc[t] = "idle"
    /\ cli.pc \in {"off", "new", "interactive"}

Occurrences(s, c) == Cardinality({i \in DOMAIN s : s[i] = c})

\* C17: after any sequence of service initialize() calls and command-line
\* setup() runs, the persisted index holds no chunk more than once.
C17_IndexHoldsEachChunkOnce ==
    NoRunInProgress => \A c \in Range(index) : Occurrences(index, c) = 1

\* C19: the retriever hands ask_question() the min(3, chunks in the index)
\* most similar chunks, most similar first; a successful ask_question()
\* returns exactly those as its sources, in that order, with sources_count
\* equal to their number, which is never more than 3.
C19_SourcesAreTopK ==
    [][\A t \in Callers :
          /\ (pc[t] = "ask_retrieve" /\ pc'[t] = "ask_chain") =>
                LET docs == loc'[t].source_docs
                    ranked == RankedFrom(index, SimilarityOrder(loc[t].question))
                IN  /\ Len(docs) = Min(3, Len(index))
                    /\ docs = SubSeq(ranked, 1, Len(docs))
          /\ (pc[t] = "ask_chain" /\ AskOk(result'[t])) =>
                LET r == result'[t].data
                IN  /\ r.sources_count = Len(r.sources)
                    /\ r.sources_count = Len(loc[t].source_docs)
                    /\ r.sources_count <= 3
                    /\ \A i \in 1..Len(r.sources) :
                          r.sources[i].content =
                              PageContent(loc[t].source_docs[i])]_vars

C19_Witness ==
    \E t, u \in Callers :
        /\ AskOk(result[t]) /\ result[t].data.sources_count = 3
        /\ Len(index) > 3
        /\ AskOk(result[u]) /\ result[u].data.sources_count \in 1..2

\* C18: after a successful initialize() that loaded a non-empty document and
\* reused a non-empty persisted index, with no other run writing to the
\* index, the chunks_count of the result is the number of chunks in the
\* index.
C18_CountMatchesIndex ==
    \A t \in Callers :
        (/\ InitSuccess(result[t])
         /\ result[t].data.saw
         /\ document # <<>> /\ index # <<>>
         /\ cli.pc = "off" /\ cli.runs = 0
         /\ \A u \in Callers \ {t} : pc[u] = "idle" /\ result[u] = NoResult)
            => result[t].data.chunks_count = Len(index)

\* C16 as stated: however many /ambedkar/ask requests arrive while the
\* service is uninitialized, initialize() is called once in total.
C16_ExactlyOneInitialization == http.attempts <= 1

\* C16: every /ambedkar/ask request that finds the service uninitialized
\* calls initialize() once, and none does once an initialization has
\* succeeded; a request is answered only after an initialization has
\* succeeded, and a request whose initialization failed gets an error
\* response and no answer.
C16_AutoInitialize ==
    /\ [](/\ http.attempts <= Len(http.log) + (IF http.stage = "idle" THEN 0 ELSE 1)
          /\ Cardinality({i \in DOMAIN http.log : http.log[i].initOk}) <= 1
          /\ \A i \in DOMAIN http.log :
                /\ http.log[i].answered <=> http.log[i].code = 200
                /\ http.log[i].answered =>
                      /\ svc.initialized
                      /\ http.log[i].triggered => http.log[i].initOk
                /\ (http.log[i].triggered /\ ~http.log[i].initOk) =>
                      /\ http.log[i].code \in {500, 503}
                      /\ ~http.log[i].answered)
    /\ [][svc.initialized => http'.attempts = http.attempts]_vars
    /\ [][http'.attempts # http.attempts =>
            /\ http'.attempts = http.attempts + 1
            /\ http.stage = "idle" /\ http'.stage = "init"]_vars

C16_Witness ==
    /\ Len(http.log) = 2
    /\ http.log[1].triggered /\ ~http.log[1].initOk /\ ~http.log[1].answered
    /\ http.log[2].triggered /\ http.log[2].initOk /\ http.log[2].answered
    /\ http.attempts = 2

====
